---- MODULE Spec2Model ----
(***************************************************************************)
(* A model of the `or` crate (src/lib.rs): the two-variant enum Or<A, B>,  *)
(* its derived equality and ordering, and its seven inherent methods.      *)
(*                                                                         *)
(* A client owns two bindings, x and y, each holding an Or value or being  *)
(* moved-from.  Methods taking `self` consume the binding, methods taking  *)
(* `&self` leave it in place, and `as_ref` / `as_mut` hand out a view      *)
(* whose payload is a reference to the binding's payload.                  *)
(***************************************************************************)
EXTENDS Integers, FiniteSets, Sequences, TLC

\* Payloads are the integers 0..MaxPayload (both type parameters are
\* instantiated with the same integer type, so A(1) and B(1) both exist).
MaxPayload == 2

Payload == 0..MaxPayload

\* The client's bindings.
Names == {"x", "y"}

VARIABLES
    store,  \* binding -> the Or value it owns, or Moved
    view,   \* the live Or<&A, &B> / Or<&mut A, &mut B>, or NoView
    snap,   \* the value the viewed binding held when the view was taken
    res     \* the last call: its name, receiver, argument and result

vars == <<store, view, snap, res>>

----------------------------------------------------------------------------
\* The enum and Option

\* Or::A(p)
OrA(p) == [tag |-> "A", val |-> p]

\* Or::B(p)
OrB(p) == [tag |-> "B", val |-> p]

OrValues == {OrA(p) : p \in Payload} \cup {OrB(p) : p \in Payload}

\* A binding whose value has been consumed by a `self` method.
Moved == [tag |-> "Moved"]

Some(v) == [some |-> TRUE, val |-> v]

None == [some |-> FALSE]

is_some(o) == o.some

\* &payload of binding l (shared) and &mut payload of binding l (exclusive)
Ref(l) == [loc |-> l, mut |-> FALSE]

RefMut(l) == [loc |-> l, mut |-> TRUE]

\* *r
Deref(mem, r) == mem[r.loc].val

\* *r = s
Write(mem, r, s) == [mem EXCEPT ![r.loc].val = s]

NoView == [tag |-> "NoView"]

NoArg == [tag |-> "NoArg"]

----------------------------------------------------------------------------
\* The methods, as the pattern matches of the source

a_wrong(self) == CASE self.tag = "B" -> Some(self.val) [] OTHER -> None

\* pub fn a(self) -> Option<A>
a(self) == CASE self.tag = "A" -> Some(self.val) [] OTHER -> None

b_wrong(self) == CASE self.tag = "A" -> Some(self.val) [] OTHER -> None

\* pub fn b(self) -> Option<B>
b(self) == CASE self.tag = "B" -> Some(self.val) [] OTHER -> None

as_ref_flipped(mem, self) ==
    CASE mem[self].tag = "A" -> OrB(Ref(self))
      [] mem[self].tag = "B" -> OrA(Ref(self))

\* pub fn as_ref(&self) -> Or<&A, &B>; self is the borrowed binding
as_ref(mem, self) ==
    CASE mem[self].tag = "A" -> OrA(Ref(self))
      [] mem[self].tag = "B" -> OrB(Ref(self))

as_mut_flipped(mem, self) ==
    CASE mem[self].tag = "A" -> OrB(RefMut(self))
      [] mem[self].tag = "B" -> OrA(RefMut(self))

\* pub fn as_mut(&mut self) -> Or<&mut A, &mut B>
as_mut(mem, self) ==
    CASE mem[self].tag = "A" -> OrA(RefMut(self))
      [] mem[self].tag = "B" -> OrB(RefMut(self))

\* pub fn is_a(&self) -> bool
is_a(mem, self) == is_some(a(as_ref(mem, self)))

is_b_pasted(mem, self) == is_some(a(as_ref(mem, self)))

\* pub fn is_b(&self) -> bool
is_b(mem, self) == is_some(b(as_ref(mem, self)))

swap_keep(self) == self

swap_to_b(self) == OrB(self.val)

\* pub fn swap(self) -> Or<B, A>
swap(self) ==
    CASE self.tag = "A" -> OrB(self.val)
      [] self.tag = "B" -> OrA(self.val)

----------------------------------------------------------------------------
\* #[derive(PartialEq, Eq, PartialOrd, Ord)]

\* The variant's index in declaration order.
discriminant(self) == IF self.tag = "A" THEN 0 ELSE 1

\* Ord::cmp of the payload type
payload_cmp(p, q) ==
    IF p < q THEN "Less" ELSE IF p = q THEN "Equal" ELSE "Greater"

eq_payload_only(self, other) == self.val = other.val

\* PartialEq::eq
eq(self, other) ==
    /\ discriminant(self) = discriminant(other)
    /\ self.val = other.val

cmp_payload_first(self, other) ==
    IF self.val # other.val
    THEN payload_cmp(self.val, other.val)
    ELSE payload_cmp(discriminant(self), discriminant(other))

\* Ord::cmp
cmp(self, other) ==
    IF discriminant(self) # discriminant(other)
    THEN payload_cmp(discriminant(self), discriminant(other))
    ELSE payload_cmp(self.val, other.val)

\* PartialOrd::lt
lt(self, other) == cmp(self, other) = "Less"

----------------------------------------------------------------------------
\* The client's steps

Live(n) == store[n] # Moved

\* A view into binding n is live.
Borrowed(n) == view # NoView /\ view.val.loc = n

\* An exclusive view into binding n is live.
MutBorrowed(n) == Borrowed(n) /\ view.val.mut

Call(op, n, self, arg, out) ==
    [op |-> op, loc |-> n, self |-> self, arg |-> arg, out |-> out]

Init ==
    /\ store \in [Names -> OrValues]
    /\ view = NoView
    /\ snap = NoArg
    /\ res = Call("init", "x", store["x"], NoArg, NoArg)

\* let n = Or::A(p) / Or::B(p), in a binding that was moved from
Construct(n, v) ==
    /\ ~Live(n)
    /\ store' = [store EXCEPT ![n] = v]
    /\ res' = Call("new", n, v, NoArg, v)
    /\ UNCHANGED <<view, snap>>

\* n.is_a()
IsA(n) ==
    /\ Live(n) /\ ~MutBorrowed(n)
    /\ res' = Call("is_a", n, store[n], NoArg, is_a(store, n))
    /\ UNCHANGED <<store, view, snap>>

\* n.is_b()
IsB(n) ==
    /\ Live(n) /\ ~MutBorrowed(n)
    /\ res' = Call("is_b", n, store[n], NoArg, is_b(store, n))
    /\ UNCHANGED <<store, view, snap>>

\* n.a()
IntoA(n) ==
    /\ Live(n) /\ ~Borrowed(n)
    /\ res' = Call("a", n, store[n], NoArg, a(store[n]))
    /\ store' = [store EXCEPT ![n] = Moved]
    /\ UNCHANGED <<view, snap>>

\* n.b()
IntoB(n) ==
    /\ Live(n) /\ ~Borrowed(n)
    /\ res' = Call("b", n, store[n], NoArg, b(store[n]))
    /\ store' = [store EXCEPT ![n] = Moved]
    /\ UNCHANGED <<view, snap>>

SwapInPlace(n) ==
    /\ Live(n) /\ ~Borrowed(n)
    /\ res' = Call("swap", n, store[n], NoArg, swap(store[n]))
    /\ store' = [store EXCEPT ![n] = swap(store[n])]
    /\ UNCHANGED <<view, snap>>

\* n.swap()
Swap(n) ==
    /\ Live(n) /\ ~Borrowed(n)
    /\ res' = Call("swap", n, store[n], NoArg, swap(store[n]))
    /\ store' = [store EXCEPT ![n] = Moved]
    /\ UNCHANGED <<view, snap>>

\* n.swap().swap()
ThenSwap ==
    /\ res.op = "swap"
    /\ res' = Call("swap.swap", res.loc, res.self, NoArg, swap(res.out))
    /\ UNCHANGED <<store, view, snap>>

\* n.swap().a()
ThenA ==
    /\ res.op = "swap"
    /\ res' = Call("swap.a", res.loc, res.self, NoArg, a(res.out))
    /\ UNCHANGED <<store, view, snap>>

\* n.swap().b()
ThenB ==
    /\ res.op = "swap"
    /\ res' = Call("swap.b", res.loc, res.self, NoArg, b(res.out))
    /\ UNCHANGED <<store, view, snap>>

\* let v = n.as_ref()
AsRef(n) ==
    /\ Live(n) /\ view = NoView
    /\ view' = as_ref(store, n)
    /\ snap' = store[n]
    /\ res' = Call("as_ref", n, store[n], NoArg, view')
    /\ UNCHANGED store

\* let v = n.as_mut()
AsMut(n) ==
    /\ Live(n) /\ view = NoView
    /\ view' = as_mut(store, n)
    /\ snap' = store[n]
    /\ res' = Call("as_mut", n, store[n], NoArg, view')
    /\ UNCHANGED store

\* drop(v)
DropView ==
    /\ view # NoView
    /\ res' = Call("drop", view.val.loc, snap, NoArg, view)
    /\ view' = NoView
    /\ snap' = NoArg
    /\ UNCHANGED store

\* v.a().map(|r| *r = s), v the view of as_mut
MutateA(s) ==
    /\ view # NoView /\ view.val.mut
    /\ LET o == a(view) IN
        /\ store' = IF is_some(o) THEN Write(store, o.val, s) ELSE store
        /\ res' = Call("mut_a", view.val.loc, store[view.val.loc], s, o)
    /\ view' = NoView
    /\ snap' = NoArg

\* v.b().map(|r| *r = s), v the view of as_mut
MutateB(s) ==
    /\ view # NoView /\ view.val.mut
    /\ LET o == b(view) IN
        /\ store' = IF is_some(o) THEN Write(store, o.val, s) ELSE store
        /\ res' = Call("mut_b", view.val.loc, store[view.val.loc], s, o)
    /\ view' = NoView
    /\ snap' = NoArg

\* n == m
Equals(n, m) ==
    /\ Live(n) /\ Live(m) /\ ~MutBorrowed(n) /\ ~MutBorrowed(m)
    /\ res' = Call("eq", n, store[n], store[m], eq(store[n], store[m]))
    /\ UNCHANGED <<store, view, snap>>

\* n.cmp(&m)
Compare(n, m) ==
    /\ Live(n) /\ Live(m) /\ ~MutBorrowed(n) /\ ~MutBorrowed(m)
    /\ res' = Call("cmp", n, store[n], store[m], cmp(store[n], store[m]))
    /\ UNCHANGED <<store, view, snap>>

Next ==
    \/ \E n \in Names, v \in OrValues : Construct(n, v)
    \/ \E n \in Names : IsA(n)
    \/ \E n \in Names : IsB(n)
    \/ \E n \in Names : IntoA(n)
    \/ \E n \in Names : IntoB(n)
    \/ \E n \in Names : Swap(n)
    \/ ThenSwap
    \/ ThenA
    \/ ThenB
    \/ \E n \in Names : AsRef(n)
    \/ \E n \in Names : AsMut(n)
    \/ DropView
    \/ \E s \in Payload : MutateA(s)
    \/ \E s \in Payload : MutateB(s)
    \/ \E n \in Names, m \in Names : Equals(n, m)
    \/ \E n \in Names, m \in Names : Compare(n, m)

Spec == Init /\ [][Next]_vars

----------------------------------------------------------------------------
\* The properties

\* C1: for every payload p, A(p) has is_a() true, is_b() false, a() equal to
\* Some(p) with that very payload, and b() equal to None -- both for the
\* calls the client made and for every A value a binding holds.
C1_VariantA ==
    /\ res.self.tag = "A" =>
        /\ res.op = "is_a" => res.out = TRUE
        /\ res.op = "is_b" => res.out = FALSE
        /\ res.op = "a" => res.out = Some(res.self.val)
        /\ res.op = "b" => res.out = None
    /\ \A n \in Names : Live(n) /\ store[n].tag = "A" =>
        /\ is_a(store, n)
        /\ ~is_b(store, n)
        /\ a(store[n]) = Some(store[n].val)
        /\ b(store[n]) = None

\* a() was called on A(MaxPayload) and returned Some(MaxPayload).
C1_Witness ==
    /\ res.op = "a"
    /\ res.self = OrA(MaxPayload)
    /\ res.out = Some(MaxPayload)
    /\ ~Live(res.loc)

\* C2: for every payload p, B(p) has is_b() true, is_a() false, b() equal to
\* Some(p) with that very payload, and a() equal to None: the B payload is
\* dropped and the call returns normally.
C2_VariantB ==
    /\ res.self.tag = "B" =>
        /\ res.op = "is_b" => res.out = TRUE
        /\ res.op = "is_a" => res.out = FALSE
        /\ res.op = "b" => res.out = Some(res.self.val)
        /\ res.op = "a" => res.out = None
    /\ \A n \in Names : Live(n) /\ store[n].tag = "B" =>
        /\ is_b(store, n)
        /\ ~is_a(store, n)
        /\ b(store[n]) = Some(store[n].val)
        /\ a(store[n]) = None

\* a() was called on B(MaxPayload), returned None and consumed the binding.
C2_Witness ==
    /\ res.op = "a"
    /\ res.self = OrB(MaxPayload)
    /\ res.out = None
    /\ ~Live(res.loc)

\* C3: swap exchanges the tag and keeps the payload: swap(A(p)) = B(p) and
\* swap(B(p)) = A(p); hence swap(v).b() = v.a() and swap(v).a() = v.b().
C3_SwapExchanges ==
    /\ res.op = "swap" =>
        /\ res.self.tag = "A" => res.out = OrB(res.self.val)
        /\ res.self.tag = "B" => res.out = OrA(res.self.val)
        /\ eq(res.out, IF res.self.tag = "A" THEN OrB(res.self.val)
                                             ELSE OrA(res.self.val))
    /\ res.op = "swap.b" =>
        res.out = IF res.self.tag = "A" THEN Some(res.self.val) ELSE None
    /\ res.op = "swap.a" =>
        res.out = IF res.self.tag = "B" THEN Some(res.self.val) ELSE None

\* A(MaxPayload).swap().b() was evaluated and gave Some(MaxPayload).
C3_Witness ==
    /\ res.op = "swap.b"
    /\ res.self = OrA(MaxPayload)
    /\ res.out = Some(MaxPayload)

\* C4: swap is an involution: v.swap().swap() is structurally equal to v,
\* whichever variant v is and whatever its payload.
C4_SwapInvolution ==
    res.op = "swap.swap" => eq(res.out, res.self) /\ res.out = res.self

\* B(p).swap().swap() was evaluated, for a payload p > 0.
C4_Witness ==
    /\ res.op = "swap.swap"
    /\ res.self.tag = "B"
    /\ res.self.val > 0
    /\ res.out = res.self

\* C5: a write of s through as_mut().a() to a binding holding A(..) is what
\* as_ref().a() of that binding then refers to (likewise B and as_mut().b());
\* when the projection is absent nothing is written and the binding is as
\* it was.
C5_MutationVisible ==
    /\ res.op = "mut_a" =>
        IF res.self.tag = "A"
        THEN LET r == a(as_ref(store, res.loc)) IN
                /\ is_some(res.out)
                /\ is_some(r)
                /\ Deref(store, r.val) = res.arg
                /\ store[res.loc] = OrA(res.arg)
        ELSE ~is_some(res.out) /\ store[res.loc] = res.self
    /\ res.op = "mut_b" =>
        IF res.self.tag = "B"
        THEN LET r == b(as_ref(store, res.loc)) IN
                /\ is_some(res.out)
                /\ is_some(r)
                /\ Deref(store, r.val) = res.arg
                /\ store[res.loc] = OrB(res.arg)
        ELSE ~is_some(res.out) /\ store[res.loc] = res.self

\* A(0) was overwritten with MaxPayload through as_mut().a().
C5_Witness ==
    /\ res.op = "mut_a"
    /\ res.self = OrA(0)
    /\ res.arg = MaxPayload
    /\ store[res.loc] = OrA(MaxPayload)

\* C6: as_ref, is_a and is_b leave the binding as it was; the view as_ref
\* returns has the binding's tag and refers to the binding's payload; and
\* while the shared view lives and once it is dropped the binding still
\* holds the value it held when the view was taken.
C6_AsRefFrame ==
    /\ res.op \in {"as_ref", "is_a", "is_b"} =>
        Live(res.loc) /\ store[res.loc] = res.self
    /\ res.op = "as_ref" =>
        /\ res.out.tag = res.self.tag
        /\ res.out.val = Ref(res.loc)
        /\ Deref(store, res.out.val) = res.self.val
    /\ view # NoView /\ ~view.val.mut =>
        /\ Live(view.val.loc)
        /\ store[view.val.loc] = snap
        /\ view.tag = snap.tag
        /\ Deref(store, view.val) = snap.val
    /\ res.op = "drop" /\ ~res.out.val.mut =>
        Live(res.loc) /\ store[res.loc] = res.self

\* A shared view of B(MaxPayload) was taken and dropped.
C6_Witness ==
    /\ res.op = "drop"
    /\ ~res.out.val.mut
    /\ res.self = OrB(MaxPayload)
    /\ store[res.loc] = res.self

\* C7: no step changes the tag of a value a binding keeps holding, and a
\* binding that a(), b() or swap() was called on holds no value afterwards
\* (the result is a new value).
C7_TagNeverChanges ==
    /\ [][\A n \in Names :
            store[n] # Moved /\ store'[n] # Moved
                => store'[n].tag = store[n].tag]_vars
    /\ [](res.op \in {"a", "b", "swap"} => store[res.loc] = Moved)

\* B(0) had its payload rewritten through as_mut().b() and is still B.
C7_Witness ==
    /\ res.op = "mut_b"
    /\ res.self = OrB(0)
    /\ res.arg # 0
    /\ store[res.loc].tag = "B"
    /\ store[res.loc].val = res.arg

\* C8: exactly one of is_a() and is_b() is true of every value, is_a() says
\* the tag is A, and each agrees with the presence of the projection of a
\* view of that value (is_a() iff view.a() is Some, is_b() iff view.b() is).
C8_IsBComplement ==
    /\ \A n \in Names : Live(n) =>
        /\ is_a(store, n) # is_b(store, n)
        /\ is_a(store, n) <=> store[n].tag = "A"
        /\ Borrowed(n) =>
            /\ is_a(store, n) <=> is_some(a(view))
            /\ is_b(store, n) <=> is_some(b(view))
    /\ res.op = "is_a" => (res.out <=> res.self.tag = "A")
    /\ res.op = "is_b" => (res.out <=> res.self.tag = "B")

\* is_b() answered true for a binding of which a shared view is live.
C8_Witness ==
    /\ res.op = "is_b"
    /\ res.out = TRUE
    /\ Borrowed(res.loc)
    /\ ~is_a(store, res.loc)
    /\ is_some(b(view))

\* C9: two Or values are equal iff they have the same tag and equal
\* payloads; A(p) is never equal to B(q), not even when p = q.
C9_StructuralEquality ==
    res.op = "eq" =>
        /\ res.out <=> (res.self.tag = res.arg.tag /\ res.self.val = res.arg.val)
        /\ res.self.tag # res.arg.tag => ~res.out

\* A(1) == B(1) was evaluated and is false.
C9_Witness ==
    /\ res.op = "eq"
    /\ res.self = OrA(1)
    /\ res.arg = OrB(1)
    /\ res.out = FALSE

\* C10: A(p) orders before B(q) for all p, q; within one variant the order
\* is the payloads' order; the order is total (exactly one of less, equal,
\* greater, equal only for equal values, and reversed when the operands are).
C10_Ordering ==
    res.op = "cmp" =>
        /\ res.out \in {"Less", "Equal", "Greater"}
        /\ res.self.tag = "A" /\ res.arg.tag = "B" => res.out = "Less"
        /\ res.self.tag = "B" /\ res.arg.tag = "A" => res.out = "Greater"
        /\ res.self.tag = res.arg.tag =>
            /\ res.out = "Less" <=> res.self.val < res.arg.val
            /\ res.out = "Greater" <=> res.self.val > res.arg.val
        /\ res.out = "Equal" <=> res.self = res.arg
        /\ lt(res.self, res.arg) <=> res.out = "Less"
        /\ lt(res.arg, res.self) <=> res.out = "Greater"

\* A(MaxPayload).cmp(&B(0)) was evaluated and is Less.
C10_Witness ==
    /\ res.op = "cmp"
    /\ res.self = OrA(MaxPayload)
    /\ res.arg = OrB(0)
    /\ res.out = "Less"

====
